---- MODULE Spec2Model ----
(***************************************************************************)
(* Model of bambu-bar: the one-shot MQTT status session                    *)
(* get_bambu_printer_status (src/bambu_status.py).  Two execution contexts *)
(* are modelled: the caller (connect_async, loop_start, the bounded wait,  *)
(* the finally block, the classification) and the paho network thread,     *)
(* which runs the callbacks on_connect, on_message, on_disconnect and      *)
(* on_connect_fail while the loop is running.                              *)
(***************************************************************************)
EXTENDS Integers, Sequences, FiniteSets, TLC

\* ---------------------------------------------------------------- bounds
MaxCallbacks == 4      \* callbacks the network thread delivers in one call
MaxTimeout == 2        \* largest timeout (in clock ticks) a call is given
MaxRemaining == 125    \* largest mc_remaining_time of the classifier inputs

\* ------------------------------------------------------ program constants
mqtt_port == 8883

\* ------------------------------------------------------------ JSON values
\* mc_remaining_time as found in the print section.
TimeAbsent == [t |-> "absent", v |-> 0]
TimeNull == [t |-> "null", v |-> 0]
TimeStr == [t |-> "str", v |-> 0]
TimeInt(n) == [t |-> "int", v |-> n]

\* gcode_state as found in the print section.
GcodeAbsent == [t |-> "absent", s |-> ""]
GcodeNull == [t |-> "null", s |-> ""]
GcodeStr(s) == [t |-> "str", s |-> s]

\* The value under the key "print".
PrintNA == [t |-> "na", gcode |-> GcodeAbsent, time |-> TimeAbsent]
PrintNull == [t |-> "null", gcode |-> GcodeAbsent, time |-> TimeAbsent]
PrintObj(g, r) == [t |-> "obj", gcode |-> g, time |-> r]

\* A parsed JSON document.  has: for an object, the key "print" is present;
\* for an array, "print" is one of its elements; for a string, "print" is a
\* substring of it.
NoneVal == [t |-> "None", has |-> FALSE, print |-> PrintNA]
NumVal == [t |-> "num", has |-> FALSE, print |-> PrintNA]
StrVal(h) == [t |-> "str", has |-> h, print |-> PrintNA]
ListVal(h) == [t |-> "list", has |-> h, print |-> PrintNA]
ObjNoPrint == [t |-> "obj", has |-> FALSE, print |-> PrintNA]
ObjPrint(p) == [t |-> "obj", has |-> TRUE, print |-> p]
Report(s, r) == ObjPrint(PrintObj(GcodeStr(s), r))

\* A message as it arrives: raw bytes that may fail to decode or to parse.
BadUtf8 == [enc |-> "badutf8", val |-> NoneVal]
BadJson == [enc |-> "badjson", val |-> NoneVal]
Json(v) == [enc |-> "json", val |-> v]

\* json.loads(msg.payload.decode("utf-8"))
Loads(msg) ==
  IF msg.enc = "badutf8" THEN [exc |-> "UnicodeDecodeError", val |-> NoneVal]
  ELSE IF msg.enc = "badjson" THEN [exc |-> "JSONDecodeError", val |-> NoneVal]
  ELSE [exc |-> "", val |-> msg.val]

\* "print" in payload
InPrint(payload) ==
  IF payload.t \in {"obj", "list", "str"}
  THEN [exc |-> "", res |-> payload.has]
  ELSE [exc |-> "TypeError", res |-> FALSE]

\* ------------------------------------------------------------ results
Done == [kind |-> "Done", hours |-> 0, minutes |-> 0]
Unknown == [kind |-> "Unknown", hours |-> 0, minutes |-> 0]
Minutes(m) == [kind |-> "minutes", hours |-> 0, minutes |-> m]
HoursMinutes(h, m) == [kind |-> "hm", hours |-> h, minutes |-> m]
Raised(e) == [kind |-> e, hours |-> 0, minutes |-> 0]
NoResult == [kind |-> "", hours |-> 0, minutes |-> 0]

FinishedStates == {"FINISH", "FAILED", "IDLE"}

\* print_data.get("mc_remaining_time", -1)
GetRemaining(print_data) ==
  IF print_data.time.t = "absent" THEN TimeInt(-1) ELSE print_data.time

\* print_data.get("gcode_state", "")
GetGcode(print_data) ==
  IF print_data.gcode.t = "absent" THEN GcodeStr("") ELSE print_data.gcode

\* Variants of Format: a finished job counts as Done only without remaining
\* time; the minutes are not reduced modulo 60.
FormatDoneNeedsNoTime(gcode_state, remaining_time) ==
  IF (gcode_state.t = "str" /\ gcode_state.s \in FinishedStates
      /\ remaining_time.t = "int" /\ remaining_time.v <= 0)
     \/ (gcode_state = GcodeStr("RUNNING") /\ remaining_time = TimeInt(0))
  THEN Done
  ELSE IF remaining_time.t # "int" THEN Raised("TypeError")
  ELSE IF remaining_time.v > 0 /\ gcode_state = GcodeStr("RUNNING")
  THEN LET hours == remaining_time.v \div 60
           minutes == remaining_time.v % 60
       IN IF hours > 0 THEN HoursMinutes(hours, minutes) ELSE Minutes(minutes)
  ELSE Unknown

\* Further variants of Format: the RUNNING test of the remaining branch is
\* dropped; the hours are shown only from two hours on.
FormatAnyStateRemaining(gcode_state, remaining_time) ==
  IF (gcode_state.t = "str" /\ gcode_state.s \in FinishedStates)
     \/ (gcode_state = GcodeStr("RUNNING") /\ remaining_time = TimeInt(0))
  THEN Done
  ELSE IF remaining_time.t # "int" THEN Raised("TypeError")
  ELSE IF remaining_time.v > 0
  THEN LET hours == remaining_time.v \div 60
           minutes == remaining_time.v % 60
       IN IF hours > 0 THEN HoursMinutes(hours, minutes) ELSE Minutes(minutes)
  ELSE Unknown

FormatHoursFromTwo(gcode_state, remaining_time) ==
  IF (gcode_state.t = "str" /\ gcode_state.s \in FinishedStates)
     \/ (gcode_state = GcodeStr("RUNNING") /\ remaining_time = TimeInt(0))
  THEN Done
  ELSE IF remaining_time.t # "int" THEN Raised("TypeError")
  ELSE IF remaining_time.v > 0 /\ gcode_state = GcodeStr("RUNNING")
  THEN LET hours == remaining_time.v \div 60
           minutes == remaining_time.v % 60
       IN IF hours > 1 THEN HoursMinutes(hours, minutes) ELSE Minutes(minutes)
  ELSE Unknown

FormatNoModulo(gcode_state, remaining_time) ==
  IF (gcode_state.t = "str" /\ gcode_state.s \in FinishedStates)
     \/ (gcode_state = GcodeStr("RUNNING") /\ remaining_time = TimeInt(0))
  THEN Done
  ELSE IF remaining_time.t # "int" THEN Raised("TypeError")
  ELSE IF remaining_time.v > 0 /\ gcode_state = GcodeStr("RUNNING")
  THEN LET hours == remaining_time.v \div 60
           minutes == remaining_time.v
       IN IF hours > 0 THEN HoursMinutes(hours, minutes) ELSE Minutes(minutes)
  ELSE Unknown

\* Lines 106-117, on the two values read from the print section.
Format(gcode_state, remaining_time) ==
  IF (gcode_state.t = "str" /\ gcode_state.s \in FinishedStates)
     \/ (gcode_state = GcodeStr("RUNNING") /\ remaining_time = TimeInt(0))
  THEN Done
  ELSE IF remaining_time.t # "int" THEN Raised("TypeError")
  ELSE IF remaining_time.v > 0 /\ gcode_state = GcodeStr("RUNNING")
  THEN LET hours == remaining_time.v \div 60
           minutes == remaining_time.v % 60
       IN IF hours > 0 THEN HoursMinutes(hours, minutes) ELSE Minutes(minutes)
  ELSE Unknown

\* Lines 102-117: the classification of the captured status_data.
Classify(sd) ==
  IF sd.t # "obj" THEN Raised("AttributeError")
  ELSE LET print_data == IF sd.has THEN sd.print ELSE PrintObj(GcodeAbsent, TimeAbsent)
       IN IF print_data.t # "obj" THEN Raised("AttributeError")
          ELSE Format(GetGcode(print_data), GetRemaining(print_data))

\* Truth value of status_data in "elif status_data".
Truthy(sd) == sd.t # "None" /\ (sd.t = "obj" => sd.has) /\ (sd.t = "list" => sd.has)

\* Variants of ReturnValue: the captured report is looked at before the
\* connection error, or before the outcome of the wait.
ReturnValueDataFirst(err, triggered, sd) ==
  IF triggered = "True" /\ Truthy(sd) THEN Classify(sd)
  ELSE Unknown

ReturnValueIgnoresWait(err, triggered, sd) ==
  IF err # "None" THEN Unknown
  ELSE IF Truthy(sd) THEN Classify(sd)
  ELSE Unknown

\* Lines 93-120: what the function returns once the finally block is through.
ReturnValue(err, triggered, sd) ==
  IF err # "None" THEN Unknown
  ELSE IF triggered # "True" THEN Unknown
  ELSE IF Truthy(sd) THEN Classify(sd)
  ELSE Unknown

\* ------------------------------------------------------------ inputs
Ips == {"", "192.168.68.113"}
Serials == {"03919D4C0708643"}
publish_topic(serial) == <<"device", serial, "request">>
subscribe_topic(serial) == <<"device", serial, "report">>

\* Messages the broker may deliver during a session.
SessionMessages ==
  {BadUtf8, BadJson, Json(NumVal), Json(StrVal(TRUE)), Json(ListVal(TRUE)),
   Json(ObjNoPrint), Json(ObjPrint(PrintNull)),
   Json(Report("FINISH", TimeInt(30))), Json(Report("RUNNING", TimeInt(45))),
   Json(Report("RUNNING", TimeInt(125))), Json(Report("PAUSE", TimeInt(5)))}

ReturnCodes == {0, 5}

VARIABLES
  pc,               \* the caller's position in get_bambu_printer_status
  ip, serial,       \* arguments of the call
  timeout,          \* the timeout argument, in clock ticks
  timeout_ok,       \* the timeout argument is a number
  status_data,      \* nonlocal status_data
  flag,             \* message_received_event is set
  connection_error, \* nonlocal connection_error
  event_triggered,  \* local event_triggered: "unbound", "True" or "False"
  exc,              \* exception pending in the try block
  result,           \* what the call returned or raised
  loop_running,     \* the network thread of client.loop_start() is alive
  conn,             \* transport state of the client: "down" or "up"
  ops,              \* subscribe/publish requests issued by the client
  loop_stops,       \* calls of client.loop_stop()
  disconnects,      \* calls of client.disconnect()
  elapsed,          \* clock ticks spent in the bounded wait
  callbacks,        \* callbacks delivered so far
  delivered,        \* messages handed to on_message, in order
  connacks,         \* return codes handed to on_connect, in order
  signals           \* who called message_received_event.set(), in order

\* Several calls of get_bambu_printer_status running at the same time.
VARIABLES
  calls,            \* per call: position, event_triggered, result
  cells,            \* per call frame: status_data, the event, connection_error
  clients,          \* per mqtt.Client: owner, loop thread, transport, teardown
  actor             \* the call on whose behalf the last step ran

\* The menubar application BambuStatusApp.
VARIABLES
  config_loaded,        \* self.config_loaded
  printer_ip,           \* self.printer_ip
  printer_serial,       \* self.printer_serial
  printer_access_code,  \* self.printer_access_code
  title,                \* self.title
  timer_running,        \* self.status_timer is started
  state_file,           \* contents of STATE_FILE
  app_pc,               \* "idle", or the settings prompt that is open
  last_handler,         \* the last step completed this settings handler
  last_poll,            \* the last step was a poll that returned or raised
                        \* this; seq flips at every poll
  last_call             \* arguments of the call made by the last step

vars == <<pc, ip, serial, timeout, timeout_ok, status_data, flag,
          connection_error, event_triggered, exc, result, loop_running, conn,
          ops, loop_stops, disconnects, elapsed, callbacks, delivered,
          connacks, signals, calls, cells, clients, actor, config_loaded,
          printer_ip, printer_serial, printer_access_code, title,
          timer_running, state_file, app_pc, last_handler, last_poll,
          last_call>>

callerVars == <<pc, event_triggered, exc, result, loop_stops, disconnects, elapsed>>
argVars == <<ip, serial, timeout, timeout_ok>>
sharedVars == <<status_data, flag, connection_error>>
netVars == <<conn, ops, callbacks, delivered, connacks, signals>>
concVars == <<calls, cells, clients, actor>>
appVars == <<config_loaded, printer_ip, printer_serial, printer_access_code,
             title, timer_running, state_file, app_pc, last_handler,
             last_poll, last_call>>

\* ------------------------------------------------- initial values
\* The calls of the concurrent model, none of them started yet.
Calls == {1, 2}
NewCall == [pc |-> "idle", event_triggered |-> "unbound", result |-> NoResult]
NewCell == [status_data |-> NoneVal, flag |-> FALSE, connection_error |-> "None"]
NewClient ==
  [owner |-> 0, loop_running |-> FALSE, conn |-> "down", callbacks |-> 0,
   disconnects |-> 0, captured |-> NoneVal, failed |-> FALSE]

ConcInit ==
  /\ calls = [c \in Calls |-> NewCall]
  /\ cells = [c \in Calls |-> NewCell]
  /\ clients = [c \in Calls |-> NewClient]
  /\ actor = 0

\* Titles shown in the menu bar: a fixed text, or an icon with the status.
FixedTitle(text) == [text |-> text, status |-> NoResult]
StatusTitle(icon, r) == [text |-> icon, status |-> r]
TitleLoginNeeded == FixedTitle("3D ? Login needed")
TitleReady == FixedTitle("3D Bambu: Ready")
TitleError == FixedTitle("3D Bambu: Error")

\* The state file: absent, not parseable, or a JSON object of three settings
\* (a missing or null setting reads as "").
NoFile == [kind |-> "absent", ip |-> "", serial |-> "", code |-> ""]
CorruptFile == [kind |-> "corrupt", ip |-> "", serial |-> "", code |-> ""]
SavedFile(i, s, c) == [kind |-> "json", ip |-> i, serial |-> s, code |-> c]

NoHandler == [handler |-> "", outcome |-> "", saved |-> "no"]
NoCall == [made |-> FALSE, ip |-> "", serial |-> "", code |-> ""]
NoPoll == [seq |-> 0, outcome |-> NoResult]

\* The application as constructed on a machine without a state file.
AppFresh ==
  /\ config_loaded = FALSE
  /\ printer_ip = ""
  /\ printer_serial = ""
  /\ printer_access_code = ""
  /\ title = TitleLoginNeeded
  /\ timer_running = FALSE
  /\ state_file = NoFile
  /\ app_pc = "idle"
  /\ last_handler = NoHandler
  /\ last_poll = NoPoll
  /\ last_call = NoCall

\* State after lines 22-80: names bound, client created and configured.
SessionInit ==
  /\ pc = "connect_async"
  /\ ip \in Ips
  /\ serial \in Serials
  /\ timeout \in 0..MaxTimeout
  /\ timeout_ok \in BOOLEAN
  /\ status_data = NoneVal
  /\ flag = FALSE
  /\ connection_error = "None"
  /\ event_triggered = "unbound"
  /\ exc = ""
  /\ result = NoResult
  /\ loop_running = FALSE
  /\ conn = "down"
  /\ ops = <<>>
  /\ loop_stops = 0
  /\ disconnects = 0
  /\ elapsed = 0
  /\ callbacks = 0
  /\ delivered = <<>>
  /\ connacks = <<>>
  /\ signals = <<>>

Init == SessionInit /\ ConcInit /\ AppFresh


\* ------------------------------------------------------------ the caller
\* Variant of AfterTry: cleanup written after the try block instead of in a
\* finally clause, so an exception skips it.
AfterTryNoFinally(e) == IF e = "" THEN "loop_stop" ELSE "post"

\* Variant of AfterTry: the cleanup is reached only when the try block raised.
AfterTryCleanupOnErrorOnly(e) == IF e = "" THEN "post" ELSE "loop_stop"

\* try/finally, lines 82-91: wherever the try block ends, by falling off its
\* end or by an exception e, control goes to client.loop_stop().
AfterTry(e) == "loop_stop"

\* client.connect_async(ip, mqtt_port, 60): records the endpoint, raises
\* ValueError for an empty host; no network activity yet.
ConnectAsync ==
  /\ pc = "connect_async"
  /\ IF ip = "" \/ mqtt_port <= 0
     THEN /\ exc' = "ValueError"
          /\ pc' = AfterTry("ValueError")
     ELSE /\ exc' = exc
          /\ pc' = "loop_start"
  /\ UNCHANGED <<event_triggered, result, loop_stops, disconnects, elapsed,
                 loop_running>>
  /\ UNCHANGED <<concVars, appVars, argVars, sharedVars, netVars>>

\* client.loop_start(): the network thread starts running.
LoopStart ==
  /\ pc = "loop_start"
  /\ loop_running' = TRUE
  /\ pc' = "wait"
  /\ UNCHANGED <<event_triggered, exc, result, loop_stops, disconnects, elapsed>>
  /\ UNCHANGED <<concVars, appVars, argVars, sharedVars, netVars>>

\* message_received_event.wait(timeout=timeout), entry: returns True at once
\* when the flag is set; otherwise blocks on the condition, which raises
\* TypeError for a timeout that is not a number.
WaitCall ==
  /\ pc = "wait"
  /\ IF flag
     THEN /\ event_triggered' = "True"
          /\ exc' = exc
          /\ pc' = AfterTry("")
     ELSE IF ~timeout_ok
     THEN /\ event_triggered' = event_triggered
          /\ exc' = "TypeError"
          /\ pc' = AfterTry("TypeError")
     ELSE /\ event_triggered' = event_triggered
          /\ exc' = exc
          /\ pc' = "waiting"
  /\ UNCHANGED <<result, loop_stops, disconnects, elapsed, loop_running>>
  /\ UNCHANGED <<concVars, appVars, argVars, sharedVars, netVars>>

\* The blocked wait is released by set(): wait returns True.
WaitSignaled ==
  /\ pc = "waiting"
  /\ flag
  /\ event_triggered' = "True"
  /\ pc' = AfterTry("")
  /\ UNCHANGED <<exc, result, loop_stops, disconnects, elapsed, loop_running>>
  /\ UNCHANGED <<concVars, appVars, argVars, sharedVars, netVars>>

\* Variants of WaitExpired: a wait without a bound, and a wait that gives up
\* at once.
WaitNeverExpires(e, t) == FALSE
WaitExpiresAtOnce(e, t) == TRUE

\* The bound of the wait: the timeout has run out after e ticks.
WaitExpired(e, t) == e >= t

\* The blocked wait runs out: wait returns False.
WaitTimeout ==
  /\ pc = "waiting"
  /\ ~flag
  /\ WaitExpired(elapsed, timeout)
  /\ event_triggered' = "False"
  /\ pc' = AfterTry("")
  /\ UNCHANGED <<exc, result, loop_stops, disconnects, elapsed, loop_running>>
  /\ UNCHANGED <<concVars, appVars, argVars, sharedVars, netVars>>

\* Time passes while the caller is blocked in the wait.
Tick ==
  /\ pc = "waiting"
  /\ elapsed < timeout
  /\ elapsed' = elapsed + 1
  /\ UNCHANGED <<pc, event_triggered, exc, result, loop_stops, disconnects,
                 loop_running>>
  /\ UNCHANGED <<concVars, appVars, argVars, sharedVars, netVars>>

\* client.loop_stop(): ends the network thread and joins it.
LoopRunningAfterStop(running) == FALSE

LoopStop ==
  /\ pc = "loop_stop"
  /\ loop_running' = LoopRunningAfterStop(loop_running)
  /\ loop_stops' = loop_stops + 1
  /\ pc' = "disconnect"
  /\ UNCHANGED <<event_triggered, exc, result, disconnects, elapsed>>
  /\ UNCHANGED <<concVars, appVars, argVars, sharedVars, netVars>>

\* client.disconnect()
Disconnect ==
  /\ pc = "disconnect"
  /\ disconnects' = disconnects + 1
  /\ conn' = "down"
  /\ pc' = "post"
  /\ UNCHANGED <<event_triggered, exc, result, loop_stops, elapsed, loop_running>>
  /\ UNCHANGED <<concVars, appVars, argVars, sharedVars>>
  /\ UNCHANGED <<ops, callbacks, delivered, connacks, signals>>

\* End of the finally block: a pending exception propagates, otherwise the
\* if/elif chain of lines 93-120 computes the return value.
Return ==
  /\ pc = "post"
  /\ result' = IF exc # "" THEN Raised(exc)
               ELSE ReturnValue(connection_error, event_triggered, status_data)
  /\ pc' = "done"
  /\ UNCHANGED <<event_triggered, exc, loop_stops, disconnects, elapsed,
                 loop_running>>
  /\ UNCHANGED <<concVars, appVars, argVars, sharedVars, netVars>>

\* ------------------------------------------------------ the network thread
\* The callbacks run on the thread of loop_start, one at a time.
NetReady == loop_running /\ callbacks < MaxCallbacks

\* Variant of OnConnectOps: the request is published before subscribing.
OnConnectOpsPublishFirst(rc, s) ==
  IF rc = 0
  THEN <<[op |-> "publish", topic |-> publish_topic(s)],
         [op |-> "subscribe", topic |-> subscribe_topic(s)]>>
  ELSE <<>>

\* Requests issued by on_connect for return code rc.
OnConnectOps(rc, s) ==
  IF rc = 0
  THEN <<[op |-> "subscribe", topic |-> subscribe_topic(s)],
         [op |-> "publish", topic |-> publish_topic(s)]>>
  ELSE <<>>

\* connection_error as on_connect leaves it.
OnConnectError(rc, err) == IF rc = 0 THEN err ELSE "Failed to connect"

\* on_connect(client, userdata, flags, rc)
OnConnect(rc) ==
  /\ NetReady
  /\ conn = "down"
  /\ ops' = ops \o OnConnectOps(rc, serial)
  /\ connection_error' = OnConnectError(rc, connection_error)
  /\ flag' = (flag \/ rc # 0)
  /\ signals' = IF rc = 0 THEN signals ELSE Append(signals, "failure")
  /\ conn' = IF rc = 0 THEN "up" ELSE "down"
  /\ connacks' = Append(connacks, rc)
  /\ callbacks' = callbacks + 1
  /\ UNCHANGED <<status_data, delivered, loop_running>>
  /\ UNCHANGED <<concVars, appVars, argVars, callerVars>>

\* on_connect_fail(client, userdata)
OnConnectFail ==
  /\ NetReady
  /\ conn = "down"
  /\ connection_error' = "MQTT connection failed."
  /\ flag' = TRUE
  /\ signals' = Append(signals, "failure")
  /\ callbacks' = callbacks + 1
  /\ UNCHANGED <<status_data, conn, ops, delivered, connacks, loop_running>>
  /\ UNCHANGED <<concVars, appVars, argVars, callerVars>>

\* The try block of on_message: TRUE when the payload is captured.
Captures(msg) ==
  LET parsed == Loads(msg)
  IN IF parsed.exc # "" THEN FALSE
     ELSE LET test == InPrint(parsed.val)
          IN test.exc = "" /\ test.res

\* on_message(client, userdata, msg)
OnMessage(msg) ==
  /\ NetReady
  /\ conn = "up"
  /\ IF Captures(msg)
     THEN /\ status_data' = Loads(msg).val
          /\ flag' = TRUE
          /\ signals' = Append(signals, "report")
     ELSE UNCHANGED <<status_data, flag, signals>>
  /\ delivered' = Append(delivered, msg)
  /\ callbacks' = callbacks + 1
  /\ UNCHANGED <<connection_error, conn, ops, connacks, loop_running>>
  /\ UNCHANGED <<concVars, appVars, argVars, callerVars>>

\* on_disconnect(client, userdata, rc): the transport dropped; the loop will
\* try to connect again.
OnDisconnect ==
  /\ NetReady
  /\ conn = "up"
  /\ conn' = "down"
  /\ callbacks' = callbacks + 1
  /\ UNCHANGED <<ops, delivered, connacks, signals, loop_running>>
  /\ UNCHANGED <<concVars, appVars, argVars, callerVars, sharedVars>>

Caller ==
  \/ ConnectAsync
  \/ LoopStart
  \/ WaitCall
  \/ WaitSignaled
  \/ WaitTimeout
  \/ LoopStop
  \/ Disconnect
  \/ Return

Network ==
  \/ \E rc \in ReturnCodes : OnConnect(rc)
  \/ OnConnectFail
  \/ \E msg \in SessionMessages : OnMessage(msg)
  \/ OnDisconnect

Next == Caller \/ Tick \/ Network

Spec == Init /\ [][Next]_vars

\* The caller's thread is scheduled and time passes; nothing is assumed of
\* the broker or of the network thread.
FairSpec == Spec /\ WF_vars(Caller) /\ WF_vars(Tick)


\* --------------------------------------------- the classifier on its own
\* The same session, fed one message drawn from a wide range of reports on
\* an accepted connection.
ClassifierGcodes ==
  {GcodeAbsent, GcodeNull}
  \cup {GcodeStr(s) : s \in FinishedStates \cup {"RUNNING", "PAUSE", ""}}

ClassifierTimes ==
  {TimeAbsent, TimeNull, TimeStr} \cup {TimeInt(n) : n \in -2..MaxRemaining}

ClassifierMessages ==
  {Json(ObjPrint(PrintObj(g, r))) : g \in ClassifierGcodes, r \in ClassifierTimes}
  \cup {Json(ObjPrint(PrintNull)), Json(ListVal(TRUE)), Json(ObjNoPrint)}

DeliverOne(msg) == delivered = <<>> /\ OnMessage(msg)

NextClassify ==
  \/ Caller
  \/ Tick
  \/ OnConnect(0)
  \/ \E msg \in ClassifierMessages : DeliverOne(msg)

SpecClassify == Init /\ [][NextClassify]_vars

\* ------------------------------------------------------------ properties
\* A payload with a top-level print section: it parses to an object that has
\* the key "print".
Qualifying(msg) == msg.enc = "json" /\ msg.val.t = "obj" /\ msg.val.has

QualifyingAt == {i \in DOMAIN delivered : Qualifying(delivered[i])}
FirstQualifying == delivered[CHOOSE i \in QualifyingAt : \A j \in QualifyingAt : i <= j]
Accepted == {i \in DOMAIN connacks : connacks[i] = 0}
Returned == pc = "done" /\ exc = ""


\* C1: on every exit path (report, connection failure, timeout, exception in
\* connect_async or in the wait) loop_stop and disconnect have each been
\* called exactly once and the loop is stopped by the time the function
\* returns or propagates, and no callback runs after that.
C1_CleanupOnEveryExit ==
  /\ [](loop_stops <= 1 /\ disconnects <= 1)
  /\ [](pc = "done" => (~loop_running /\ loop_stops = 1 /\ disconnects = 1))
  /\ [][pc = "done" => UNCHANGED <<sharedVars, netVars>>]_vars

C1_Witness ==
  /\ pc = "done"
  /\ result = Raised("TypeError")
  /\ callbacks > 0
  /\ disconnects = 1

\* C2 (as claimed): when two or more qualifying reports are delivered, the
\* returned status is the classification of the first of them.
C2_FirstReportClassified ==
  (/\ Returned
   /\ connection_error = "None"
   /\ event_triggered = "True"
   /\ Qualifying(Json(status_data))
   /\ Cardinality(QualifyingAt) >= 2)
  => result = Classify(Loads(FirstQualifying).val)

C4_FailureOrTimeoutIsUnknown ==
  (/\ pc = "done"
   /\ exc = ""
   /\ (connection_error # "None" \/ event_triggered = "False"))
  => result = Unknown

C4_Witness ==
  /\ pc = "done"
  /\ event_triggered = "False"
  /\ connection_error = "None"
  /\ status_data = Report("FINISH", TimeInt(30))
  /\ result = Unknown

\* C5 (as claimed): a payload that is unparseable or has no top-level print
\* section never sets the event and is never captured in status_data.
C5_NonReportIgnored ==
  /\ status_data # NoneVal => (status_data.t = "obj" /\ status_data.has)
  /\ Cardinality({i \in DOMAIN signals : signals[i] = "report"})
       <= Cardinality(QualifyingAt)

\* C6: requests are issued only by an accepted connection, a subscription to
\* device/{serial}/report first and the publish to device/{serial}/request
\* right after it; a rejected connection issues nothing.
C6_SubscribeBeforePublish ==
  /\ Len(ops) = 2 * Cardinality(Accepted)
  /\ \A i \in DOMAIN ops :
       IF i % 2 = 1
       THEN ops[i] = [op |-> "subscribe", topic |-> <<"device", serial, "report">>]
       ELSE ops[i] = [op |-> "publish", topic |-> <<"device", serial, "request">>]

C6_Witness ==
  /\ Len(ops) = 2
  /\ connacks = <<5, 0>>

\* C7: every call returns or propagates, whatever the broker and the
\* network thread do, and the session is closed by then.
C7_CallTerminates == <>(pc = "done" /\ ~loop_running /\ disconnects = 1)

C7_Witness ==
  /\ pc = "done"
  /\ callbacks = 0
  /\ timeout = MaxTimeout
  /\ event_triggered = "False"

ClassifiedReport ==
  /\ Returned
  /\ connection_error = "None"
  /\ event_triggered = "True"
  /\ status_data.t = "obj" /\ status_data.has /\ status_data.print.t = "obj"

\* C9: a report whose gcode_state is FINISH, FAILED or IDLE is classified
\* Done whatever its mc_remaining_time.
C9_FinishedIsDone ==
  (ClassifiedReport /\ status_data.print.gcode \in {GcodeStr(s) : s \in FinishedStates})
  => result = Done

C9_Witness ==
  /\ ClassifiedReport
  /\ status_data = Report("FAILED", TimeInt(MaxRemaining))
  /\ result = Done

\* C10: a RUNNING report with remaining time 0 is Done; with r > 0 it gives
\* hours and minutes with 60*hours + minutes = r and 0 <= minutes <= 59.
C10_RunningRemaining ==
  (ClassifiedReport /\ status_data.print.gcode = GcodeStr("RUNNING")
   /\ status_data.print.time.t = "int")
  => LET r == status_data.print.time.v
     IN /\ r = 0 => result = Done
        /\ r > 0 => /\ result.kind \in {"minutes", "hm"}
                    /\ result.hours >= 0
                    /\ result.minutes \in 0..59
                    /\ 60 * result.hours + result.minutes = r

C10_Witness ==
  /\ ClassifiedReport
  /\ status_data = Report("RUNNING", TimeInt(125))
  /\ result = HoursMinutes(2, 5)


C12_ClassificationTotal ==
  (/\ Returned
   /\ connection_error = "None"
   /\ event_triggered = "True"
   /\ status_data # NoneVal)
  => result.kind \in {"Done", "Unknown", "minutes", "hm"}

C16_LateReportNotClassified ==
  /\ [](event_triggered = "False" => result \in {NoResult, Unknown})
  /\ [][(event_triggered = "False" /\ result' # result) => result' = Unknown]_vars

C16_Witness ==
  /\ pc = "done"
  /\ event_triggered = "False"
  /\ elapsed = timeout
  /\ signals = <<"report">>
  /\ status_data = Report("RUNNING", TimeInt(45))
  /\ result = Unknown

\* The call is on its success path: nothing raised in the try block, the
\* wait was released, no connection error, a report captured.
SuccessPath ==
  /\ exc = ""
  /\ event_triggered = "True"
  /\ connection_error = "None"
  /\ Truthy(status_data)

\* C17 (as claimed): on the success path the captured payload is classified
\* before the transport is torn down.
C17_ClassifiedBeforeClosed ==
  (SuccessPath /\ disconnects = 1) => result # NoResult

\* C17 (amended): on the success path the transport is torn down first
\* (loop stopped, disconnect called), then the captured payload is
\* classified and the result returned.
C17_ClosedBeforeClassified ==
  [][(SuccessPath /\ result' # result)
       => (/\ ~loop_running /\ loop_stops = 1 /\ disconnects = 1
           /\ result' = Classify(status_data)
           /\ pc' = "done")]_vars

C17_Witness ==
  /\ pc = "done"
  /\ SuccessPath
  /\ disconnects = 1
  /\ result = Minutes(45)


\* ---------------------------------------------------- concurrent calls
\* Several calls of get_bambu_printer_status at once, each on its own thread,
\* each with the network thread of its own client.  The bounded wait is
\* abstracted to "may run out at any moment while the event is unset".
MaxCallbacksEach == 2   \* callbacks delivered to one client

\* The single-session model stands still while the concurrent one runs.
SessionQuiet == SessionInit /\ ip = "" /\ timeout = 0 /\ timeout_ok = FALSE

ConcMessages ==
  {Json(Report("FINISH", TimeInt(30))), Json(Report("RUNNING", TimeInt(45))),
   Json(ObjNoPrint)}

\* Variant of CellOf: status_data, the event and connection_error kept at
\* module level, one copy for all calls.
SharedCell(c) == 1

\* Lines 28-30: status_data, message_received_event and connection_error are
\* locals of the call; the callbacks reach them as closure variables.
CellOf(c) == c

\* Lines 22 and 71: every call creates a client of its own, with a fresh
\* uuid4 client id.
ClientOf(c) == c

\* Lines 22-84: locals initialised, client created, callbacks registered,
\* connect_async, loop_start.
StartCall(c) ==
  /\ calls[c].pc = "idle"
  /\ cells' = [cells EXCEPT ![CellOf(c)] = NewCell]
  /\ clients' = [clients EXCEPT ![ClientOf(c)] =
                   [NewClient EXCEPT !.owner = c, !.loop_running = TRUE]]
  /\ calls' = [calls EXCEPT ![c].pc = "waiting"]
  /\ actor' = c
  /\ UNCHANGED <<appVars, argVars, callerVars, sharedVars, netVars, loop_running>>

\* Line 87: the wait returns True once the event of this call is set.
CallWaitSignaled(c) ==
  /\ calls[c].pc = "waiting"
  /\ cells[CellOf(c)].flag
  /\ calls' = [calls EXCEPT ![c].pc = "loop_stop", ![c].event_triggered = "True"]
  /\ actor' = c
  /\ UNCHANGED <<cells, clients>>
  /\ UNCHANGED <<appVars, argVars, callerVars, sharedVars, netVars, loop_running>>

\* Line 87: the wait runs out with the event unset.
CallWaitTimeout(c) ==
  /\ calls[c].pc = "waiting"
  /\ ~cells[CellOf(c)].flag
  /\ calls' = [calls EXCEPT ![c].pc = "loop_stop", ![c].event_triggered = "False"]
  /\ actor' = c
  /\ UNCHANGED <<cells, clients>>
  /\ UNCHANGED <<appVars, argVars, callerVars, sharedVars, netVars, loop_running>>

\* Line 90: client.loop_stop() on the client of this call.
CallLoopStop(c) ==
  /\ calls[c].pc = "loop_stop"
  /\ clients' = [clients EXCEPT ![ClientOf(c)].loop_running = FALSE]
  /\ calls' = [calls EXCEPT ![c].pc = "disconnect"]
  /\ actor' = c
  /\ UNCHANGED cells
  /\ UNCHANGED <<appVars, argVars, callerVars, sharedVars, netVars, loop_running>>

\* Line 91: client.disconnect() on the client of this call.
CallDisconnect(c) ==
  /\ calls[c].pc = "disconnect"
  /\ clients' = [clients EXCEPT ![ClientOf(c)].conn = "down",
                                ![ClientOf(c)].disconnects = @ + 1]
  /\ calls' = [calls EXCEPT ![c].pc = "post"]
  /\ actor' = c
  /\ UNCHANGED cells
  /\ UNCHANGED <<appVars, argVars, callerVars, sharedVars, netVars, loop_running>>

\* Lines 93-120 on the locals of this call.
CallReturn(c) ==
  /\ calls[c].pc = "post"
  /\ calls' = [calls EXCEPT
                 ![c].pc = "done",
                 ![c].result = ReturnValue(cells[CellOf(c)].connection_error,
                                           calls[c].event_triggered,
                                           cells[CellOf(c)].status_data)]
  /\ actor' = c
  /\ UNCHANGED <<cells, clients>>
  /\ UNCHANGED <<appVars, argVars, callerVars, sharedVars, netVars, loop_running>>

\* The network thread of client k may run a callback.
ClientReady(k) ==
  /\ clients[k].owner # 0
  /\ clients[k].loop_running
  /\ clients[k].callbacks < MaxCallbacksEach

\* on_connect as registered on client k: it writes the locals of the call
\* that created k.
ClientOnConnect(k, rc) ==
  /\ ClientReady(k)
  /\ clients[k].conn = "down"
  /\ LET c == clients[k].owner
     IN /\ cells' = [cells EXCEPT
                       ![CellOf(c)].connection_error = OnConnectError(rc, @),
                       ![CellOf(c)].flag = (@ \/ rc # 0)]
        /\ actor' = c
  /\ clients' = [clients EXCEPT ![k].conn = IF rc = 0 THEN "up" ELSE "down",
                                ![k].failed = (@ \/ rc # 0),
                                ![k].callbacks = @ + 1]
  /\ UNCHANGED calls
  /\ UNCHANGED <<appVars, argVars, callerVars, sharedVars, netVars, loop_running>>

\* on_connect_fail as registered on client k.
ClientOnConnectFail(k) ==
  /\ ClientReady(k)
  /\ clients[k].conn = "down"
  /\ LET c == clients[k].owner
     IN /\ cells' = [cells EXCEPT
                       ![CellOf(c)].connection_error = "MQTT connection failed.",
                       ![CellOf(c)].flag = TRUE]
        /\ actor' = c
  /\ clients' = [clients EXCEPT ![k].failed = TRUE, ![k].callbacks = @ + 1]
  /\ UNCHANGED calls
  /\ UNCHANGED <<appVars, argVars, callerVars, sharedVars, netVars, loop_running>>

\* on_message as registered on client k.  Calls against the same serial
\* subscribe to the same topic, so any report may reach any connected client.
ClientOnMessage(k, msg) ==
  /\ ClientReady(k)
  /\ clients[k].conn = "up"
  /\ LET c == clients[k].owner
     IN /\ cells' = IF Captures(msg)
                    THEN [cells EXCEPT ![CellOf(c)].status_data = Loads(msg).val,
                                       ![CellOf(c)].flag = TRUE]
                    ELSE cells
        /\ actor' = c
  /\ clients' = [clients EXCEPT
                   ![k].captured = IF Captures(msg) THEN Loads(msg).val ELSE @,
                   ![k].callbacks = @ + 1]
  /\ UNCHANGED calls
  /\ UNCHANGED <<appVars, argVars, callerVars, sharedVars, netVars, loop_running>>

NextConcurrent ==
  \/ \E c \in Calls : StartCall(c)
  \/ \E c \in Calls : CallWaitSignaled(c)
  \/ \E c \in Calls : CallWaitTimeout(c)
  \/ \E c \in Calls : CallLoopStop(c)
  \/ \E c \in Calls : CallDisconnect(c)
  \/ \E c \in Calls : CallReturn(c)
  \/ \E k \in Calls, rc \in ReturnCodes : ClientOnConnect(k, rc)
  \/ \E k \in Calls : ClientOnConnectFail(k)
  \/ \E k \in Calls, msg \in ConcMessages : ClientOnMessage(k, msg)

InitConcurrent == SessionQuiet /\ ConcInit /\ AppFresh

SpecConcurrent == InitConcurrent /\ [][NextConcurrent]_vars

\* C14: a step taken for one call (a callback of its client, or its own
\* thread) changes nothing of another call: not its captured report, its
\* connection error, its event, its position and result, nor its client; and
\* the result of a call is determined by what its own client was delivered.
C14_CallsDoNotInterfere ==
  /\ [][\A c \in Calls :
          actor' # c => /\ cells'[CellOf(c)] = cells[CellOf(c)]
                        /\ calls'[c] = calls[c]
                        /\ clients'[ClientOf(c)] = clients[ClientOf(c)]]_vars
  /\ [](\A c \in Calls :
          calls[c].pc = "done" =>
            /\ clients[ClientOf(c)].disconnects = 1
            /\ calls[c].result =
                 ReturnValue(IF clients[ClientOf(c)].failed THEN "failed" ELSE "None",
                             calls[c].event_triggered,
                             clients[ClientOf(c)].captured))

C14_Witness ==
  /\ calls[1].pc = "done" /\ calls[1].result = Done
  /\ calls[2].pc = "waiting"
  /\ clients[2].conn = "up"
  /\ cells[CellOf(2)] = NewCell
  /\ clients[1].loop_running = FALSE /\ clients[2].loop_running


\* ------------------------------------------------- the menubar application
\* BambuStatusApp (src/bambu_menubar.py).  rumps runs the timer callback and
\* the menu handlers on the main thread, one at a time; a settings handler
\* blocks that thread while its prompt is open.
quietInApp == <<concVars, argVars, callerVars, sharedVars, netVars, loop_running>>

\* What the user may type into a prompt (after strip()), "" included.
AppTexts == {"", "new"}
UserActions == {"type", "cancel", "error", "no_osascript"}
SaveOutcomes == {"ok", "failed"}

\* What get_bambu_printer_status may hand back to update_status.
PollOutcomes ==
  {Done, Unknown, Minutes(45), HoursMinutes(2, 5), Raised("TypeError"),
   Raised("AttributeError")}

\* subprocess.run(["osascript", "-e", script]) for what the user does with
\* the dialog.  The script of lines 121-132 catches the cancel error -128
\* itself and returns "__CANCEL__" as its result, which osascript prints on
\* stdout with exit status 0.
RunOsascript(action, text) ==
  IF action = "type"
  THEN [raised |-> FALSE, returncode |-> 0, stdout |-> text, cancel_in_stderr |-> FALSE]
  ELSE IF action = "cancel"
  THEN [raised |-> FALSE, returncode |-> 0, stdout |-> "__CANCEL__", cancel_in_stderr |-> FALSE]
  ELSE IF action = "error"
  THEN [raised |-> FALSE, returncode |-> 1, stdout |-> "", cancel_in_stderr |-> FALSE]
  ELSE [raised |-> TRUE, returncode |-> 0, stdout |-> "", cancel_in_stderr |-> FALSE]

\* _run_applescript_input, lines 134-162: the input, or None.
NoInput == [none |-> TRUE, text |-> ""]
AppleScriptInput(process) ==
  IF process.raised THEN NoInput
  ELSE IF process.returncode = 0 THEN [none |-> FALSE, text |-> process.stdout]
  ELSE IF process.cancel_in_stderr THEN NoInput
  ELSE NoInput

\* Variant of AllSettingsPresent: the access code is not looked at.
AllSettingsPresentNoCode(i, s, c) == i # "" /\ s # ""

\* Line 51: self.printer_ip and self.printer_serial and self.printer_access_code
AllSettingsPresent(i, s, c) == i # "" /\ s # "" /\ c # ""

\* _check_config_and_update, lines 49-63, on the three settings and the
\* current flag, title and timer.
CheckConfig(i, s, c, loaded, ttl, running) ==
  IF AllSettingsPresent(i, s, c)
  THEN IF ~loaded
       THEN [config_loaded |-> TRUE, title |-> TitleReady, timer_running |-> TRUE]
       ELSE [config_loaded |-> loaded, title |-> ttl, timer_running |-> running]
  ELSE [config_loaded |-> FALSE, title |-> TitleLoginNeeded,
        timer_running |-> IF loaded THEN FALSE ELSE running]

\* The state files an application may find when it starts.
StartFiles ==
  {NoFile, CorruptFile}
  \cup {SavedFile(i, s, c) : i \in {"", "old"}, s \in {"", "old"},
                             c \in {"", "old"}}

\* __init__ with load_settings, lines 29-47 and 65-102.
AppInit ==
  /\ state_file \in StartFiles
  /\ app_pc = "idle"
  /\ last_handler = NoHandler
  /\ last_poll = NoPoll
  /\ last_call = NoCall
  /\ IF state_file.kind = "json"
     THEN /\ printer_ip = state_file.ip
          /\ printer_serial = state_file.serial
          /\ printer_access_code = state_file.code
          /\ LET chk == CheckConfig(state_file.ip, state_file.serial,
                                    state_file.code, FALSE, TitleLoginNeeded, FALSE)
             IN /\ config_loaded = chk.config_loaded
                /\ title = chk.title
                /\ timer_running = chk.timer_running
     ELSE /\ printer_ip = ""
          /\ printer_serial = ""
          /\ printer_access_code = ""
          /\ timer_running = FALSE
          /\ config_loaded = FALSE
          /\ title = TitleLoginNeeded

Handlers == {"ip", "serial", "code"}

\* set_ip_address / set_serial_number / set_access_code up to the prompt:
\* the timer is stopped and the dialog opens.
ClickSetting(h) ==
  /\ app_pc = "idle"
  /\ timer_running' = FALSE
  /\ app_pc' = h
  /\ last_handler' = NoHandler
  /\ last_poll' = [last_poll EXCEPT !.outcome = NoResult]
  /\ last_call' = NoCall
  /\ UNCHANGED <<config_loaded, printer_ip, printer_serial, printer_access_code,
                 title, state_file>>
  /\ UNCHANGED quietInApp

\* save_settings, lines 104-117: the file after the attempt; an IOError is
\* caught and reported, the file stays as it was.
SavedState(outcome, old, i, s, c) ==
  IF outcome = "ok" THEN SavedFile(i, s, c) ELSE old

\* Variant of TimerAfterHandler: the finally clause does not restart the timer.
TimerNotRestarted(loaded, running) == running

\* The finally clause of a settings handler, lines 192-198.
TimerAfterHandler(loaded, running) == IF loaded THEN TRUE ELSE running

\* Variant of InputAccepted: an empty input is stored like any other.
InputAcceptedEvenEmpty(new_val) == ~new_val.none

\* Lines 177-178: "if new_val is not None" and then "if new_val".
InputAccepted(new_val) == ~new_val.none /\ new_val.text # ""

\* The rest of a settings handler once the prompt is closed, lines 171-198.
CompleteSetting(h, action, text, save) ==
  /\ app_pc = h
  /\ LET new_val == AppleScriptInput(RunOsascript(action, text))
         accepted == InputAccepted(new_val)
         i == IF accepted /\ h = "ip" THEN new_val.text ELSE printer_ip
         s == IF accepted /\ h = "serial" THEN new_val.text ELSE printer_serial
         c == IF accepted /\ h = "code" THEN new_val.text ELSE printer_access_code
         chk == IF accepted
                THEN CheckConfig(i, s, c, config_loaded, title, timer_running)
                ELSE [config_loaded |-> config_loaded, title |-> title,
                      timer_running |-> timer_running]
     IN /\ printer_ip' = i
        /\ printer_serial' = s
        /\ printer_access_code' = c
        /\ state_file' = IF accepted THEN SavedState(save, state_file, i, s, c)
                         ELSE state_file
        /\ config_loaded' = chk.config_loaded
        /\ title' = chk.title
        /\ timer_running' = TimerAfterHandler(chk.config_loaded, chk.timer_running)
        /\ last_handler' =
             [handler |-> h,
              outcome |-> IF action = "type" /\ text = "" THEN "empty" ELSE action,
              saved |-> IF accepted THEN save ELSE "no"]
  /\ app_pc' = "idle"
  /\ last_poll' = [last_poll EXCEPT !.outcome = NoResult]
  /\ last_call' = NoCall
  /\ UNCHANGED quietInApp

\* Variant of TimerAfterPoll: a poll that raised stops the timer.
TimerStoppedOnError(outcome, running) ==
  IF outcome.kind \in {"TypeError", "AttributeError", "ValueError"} THEN FALSE
  ELSE running

\* update_status leaves the timer alone, lines 264-289.
TimerAfterPoll(outcome, running) == running

\* Lines 277-289: the title for what the call returned or raised.
PollTitle(outcome) ==
  IF outcome.kind \in {"TypeError", "AttributeError", "ValueError"} THEN TitleError
  ELSE IF outcome = Done THEN StatusTitle("3D done", outcome)
  ELSE IF outcome = Unknown THEN StatusTitle("3D ?", outcome)
  ELSE IF outcome.kind \in {"minutes", "hm"} THEN StatusTitle("3D hourglass", outcome)
  ELSE StatusTitle("3D info", outcome)

\* update_status, lines 264-289, called by the status timer.
UpdateStatus(outcome) ==
  /\ app_pc = "idle"
  /\ timer_running
  /\ IF ~config_loaded
     THEN /\ title' = TitleLoginNeeded
          /\ last_poll' = [last_poll EXCEPT !.outcome = NoResult]
          /\ last_call' = NoCall
          /\ UNCHANGED timer_running
     ELSE /\ last_call' = [made |-> TRUE, ip |-> printer_ip,
                           serial |-> printer_serial, code |-> printer_access_code]
          /\ last_poll' = [seq |-> 1 - last_poll.seq, outcome |-> outcome]
          /\ title' = PollTitle(outcome)
          /\ timer_running' = TimerAfterPoll(outcome, timer_running)
  /\ last_handler' = NoHandler
  /\ UNCHANGED <<config_loaded, printer_ip, printer_serial, printer_access_code,
                 state_file, app_pc>>
  /\ UNCHANGED quietInApp

NextApp ==
  \/ \E h \in Handlers : ClickSetting(h)
  \/ \E h \in Handlers, action \in UserActions, text \in AppTexts,
        save \in SaveOutcomes : CompleteSetting(h, action, text, save)
  \/ \E outcome \in PollOutcomes : UpdateStatus(outcome)

InitApp == SessionQuiet /\ ConcInit /\ AppInit

SpecApp == InitApp /\ [][NextApp]_vars


\* A poll that came back Unknown or raised.
FailedPoll(o) == o = Unknown \/ o.kind \in {"TypeError", "AttributeError", "ValueError"}

\* C15: a poll that returns Unknown or raises sets the title (the Unknown
\* indicator, or the Error title), leaves the timer running and config_loaded
\* as it was, so the next poll is still due.
C15_FailedPollNotFatal ==
  /\ [][(last_poll'.seq # last_poll.seq /\ FailedPoll(last_poll'.outcome))
          => /\ title' = IF last_poll'.outcome = Unknown
                         THEN StatusTitle("3D ?", Unknown) ELSE TitleError
             /\ timer_running /\ timer_running'
             /\ config_loaded /\ config_loaded'
             /\ app_pc' = "idle"]_vars
  /\ [](FailedPoll(last_poll.outcome) => ENABLED UpdateStatus(Done))

C15_Witness ==
  /\ last_poll.outcome = Raised("AttributeError")
  /\ title = TitleError
  /\ timer_running
  /\ config_loaded

\* C18: with no prompt open, the timer runs exactly when config_loaded is
\* true, and config_loaded is true exactly when the three settings are all
\* non-empty; while a prompt is open the timer is stopped.
C18_TimerIffConfigured ==
  /\ app_pc = "idle" =>
       /\ timer_running <=> config_loaded
       /\ config_loaded <=>
            (printer_ip # "" /\ printer_serial # "" /\ printer_access_code # "")
  /\ app_pc # "idle" => ~timer_running

C18_Witness ==
  /\ app_pc = "idle"
  /\ last_handler = [handler |-> "code", outcome |-> "error", saved |-> "no"]
  /\ config_loaded
  /\ timer_running

C20_OnlyAcceptedInputChanges ==
  [][(app_pc # "idle" /\ app_pc' = "idle") =>
       IF last_handler'.outcome \in {"cancel", "error", "no_osascript", "empty"}
       THEN /\ UNCHANGED <<printer_ip, printer_serial, printer_access_code,
                           config_loaded, state_file>>
            /\ last_handler'.saved = "no"
       ELSE /\ app_pc # "ip" => printer_ip' = printer_ip
            /\ app_pc # "serial" => printer_serial' = printer_serial
            /\ app_pc # "code" => printer_access_code' = printer_access_code]_vars

\* C21: once config_loaded is true, no step of a settings handler or of the
\* timer makes it false or leaves any of the three settings empty; so the
\* branch of _check_config_and_update that disables status updates (lines
\* 58-63) and the early return of update_status (lines 265-269) are never
\* taken from a configured state.
C21_ConfigLoadedMonotonic ==
  /\ [][config_loaded =>
          /\ config_loaded'
          /\ AllSettingsPresent(printer_ip', printer_serial', printer_access_code')
          /\ title' # TitleLoginNeeded]_vars
  /\ [](config_loaded =>
          AllSettingsPresent(printer_ip, printer_serial, printer_access_code))

\* A configured app that has already polled, just after a settings handler
\* got an empty input: still configured, the timer restarted.
C21_Witness ==
  /\ config_loaded
  /\ app_pc = "idle"
  /\ timer_running
  /\ title = StatusTitle("3D done", Done)
  /\ last_handler = [handler |-> "serial", outcome |-> "empty", saved |-> "no"]

====
